---- MODULE Spec2Model ----
(***************************************************************************)
(* A model of tqdm/tqdm.hpp (IteratorHook, Tqdm, the tqdm() factory and    *)
(* its hook lambda), of the range-for loop of test.cpp that drives it, and *)
(* of tqdm/progress_bar.hpp (ProgressBar).                                 *)
(*                                                                         *)
(* Time is counted in clock ticks since the epoch of system_clock; a       *)
(* millisecond is TicksPerMs ticks, so duration_cast<milliseconds> really  *)
(* truncates.  The clock never runs backwards.                             *)
(***************************************************************************)
EXTENDS Integers, Sequences, FiniteSets, TLC

\* ---------------------------------------------------------------- bounds
MaxN == 2
MaxInterval == 1
MaxTicks == 2
MaxPrints == 3
MaxBarWidth == 3
MaxLevels == 4
MaxDen == 4

\* Clock resolution: ticks per millisecond.
TicksPerMs == 2
TicksPerSec == 1000 * TicksPerMs

\* The elements a container may hold (test.cpp iterates a std::vector<bool>).
Values == {FALSE, TRUE}
Containers == UNION {[1..n -> Values] : n \in 0..MaxN}
MinIntervals == 0..MaxInterval
Widths == 0..MaxN
\* The default of tqdm()'s width parameter.
DefaultWidth == 10
\* The three iterator objects of the caller: __begin and __end of the
\* range-for statement, and one more iterator object "x" the caller builds.
Slots == {"b", "e", "x"}

VARIABLES
    container,  \* the std::vector being iterated
    tq,         \* the Tqdm object captured in the hook lambda
    now,        \* std::chrono::system_clock::now(), in ticks
    iters,      \* the caller's IteratorHook::Iterator objects
    pc,         \* where the range-for loop of main() stands
    os,         \* everything written to the output stream so far
    loop,       \* which of main()'s loops over the range runs: 1 or 2
    calls,      \* history: the hook invocations so far
    yielded,    \* history: the values the loop body received, this loop
    last,       \* history: the last operation on an iterator object
    pb,         \* a ProgressBar object
    shown,      \* what its last toString() returned
    ts          \* a call of to_time_string: its argument and its result

vars ==
    <<container, tq, now, iters, pc, loop, os, calls, yielded, last, pb, shown,
      ts>>

\* ------------------------------------------------------- C++ arithmetic
\* Integer division and remainder of C++ truncate towards zero.
CDiv(a, b) == IF a >= 0 THEN a \div b ELSE -((-a) \div b)
CMod(a, b) == a - b * CDiv(a, b)
\* std::chrono::duration_cast<std::chrono::milliseconds>(d).count()
DurationCastMs(d) == CDiv(d, TicksPerMs)
\* INT_MIN, what cvttsd2si stores for a NaN.
IntMin == -2147483647 - 1

\* ------------------------------------------------------------ class Tqdm
\* A default-constructed time_point is the epoch.
Epoch == 0

reset(t, clk) ==
    [t EXCEPT !.step_ = 0, !.first_print_ = TRUE, !.start_time_ = clk]

Tqdm(size, title, mininterval, width, clk) ==
    reset([size_ |-> size, title_ |-> title, mininterval_ |-> mininterval,
           width_ |-> width, step_ |-> 0, first_print_ |-> FALSE,
           start_time_ |-> Epoch, current_time_ |-> Epoch,
           last_print_time_ |-> Epoch], clk)

\* step() without its guard.
stepUnguarded(t, clk) == [t EXCEPT !.step_ = @ + 1, !.current_time_ = clk]

\* step() taking its time sample outside the guard.
stepSampleAlways(t, clk) ==
    IF t.step_ < t.size_
    THEN [t EXCEPT !.step_ = @ + 1, !.current_time_ = clk]
    ELSE [t EXCEPT !.current_time_ = clk]

step(t, clk) ==
    IF t.step_ < t.size_
    THEN [t EXCEPT !.step_ = @ + 1, !.current_time_ = clk]
    ELSE t

\* What step() returns: step_ after the call.
stepResult(t, clk) == step(t, clk).step_

isEnd(t) == t.step_ >= t.size_

\* The throttle without the exemption of a complete state.
ThrottledWhenComplete(t, clk) ==
    /\ ~t.first_print_
    /\ DurationCastMs(clk - t.last_print_time_) < t.mininterval_

\* The throttle comparing with <= instead of <.
ThrottledInclusive(t, clk) ==
    /\ ~t.first_print_
    /\ ~isEnd(t)
    /\ DurationCastMs(clk - t.last_print_time_) <= t.mininterval_

\* The early return of operator<<: the frame is not due yet.
Throttled(t, clk) ==
    /\ ~t.first_print_
    /\ ~isEnd(t)
    /\ DurationCastMs(clk - t.last_print_time_) < t.mininterval_

\* One of the width_ cells between the brackets.  processed is
\* double(step_) / size_; for size_ = 0 it is NaN, every comparison with
\* NaN is false.  For the sizes and widths of this model the two double
\* quotients compare as the exact fractions do.
BarCell(t, i) ==
    IF t.size_ # 0 /\ i * t.size_ <= t.step_ * t.width_ THEN "=" ELSE " "

Bar(t) == [k \in 1..t.width_ |-> BarCell(t, k - 1)]

\* int(processed * 100).  Converting NaN to int is undefined: the value is
\* whatever the build stores (0, or INT_MIN on x86).  For size_ < 50 the
\* double product truncates to the exact floor(100 * step_ / size_).
Percents(t) ==
    IF t.size_ = 0 THEN {0, IntMin} ELSE {(100 * t.step_) \div t.size_}

\* The decimal digits of n >= 0, most significant first.
RECURSIVE Digits(_)
Digits(n) ==
    IF n < 10
    THEN <<<<"0", "1", "2", "3", "4", "5", "6", "7", "8", "9">>[n + 1]>>
    ELSE Digits(n \div 10) \o Digits(n % 10)

\* os << std::setw(2) << std::setfill('0') << n
SetW2(n) ==
    LET d == IF n < 0 THEN <<"-">> \o Digits(-n) ELSE Digits(n)
    IN  IF Len(d) < 2 THEN <<"0">> \o d ELSE d

to_time_string(milliseconds) ==
    SetW2(CDiv(milliseconds, 3600000)) \o <<":">>
    \o SetW2(CDiv(CMod(milliseconds, 3600000), 60000)) \o <<":">>
    \o SetW2(CDiv(CMod(milliseconds, 60000), 1000))

\* to_time_string not called yet, and called with argument d.
NoTimeString == [ms |-> 0, valid |-> FALSE, text |-> <<>>]
TimeStringOf(d) == [ms |-> d, valid |-> TRUE, text |-> to_time_string(d)]

cost(t) == DurationCastMs(t.current_time_ - t.start_time_)
\* The estimate with step_ and size_ exchanged.
estimated_time_inverted(t) ==
    IF t.step_ # 0 THEN (cost(t) * t.step_) \div t.size_ ELSE 0

estimated_time(t) ==
    IF t.step_ # 0 THEN (cost(t) * t.size_) \div t.step_ ELSE 0
remaining_time(t) ==
    IF t.step_ # 0 THEN (cost(t) * (t.size_ - t.step_)) \div t.step_ ELSE 0
passed_time(t) == IF t.step_ # 0 THEN cost(t) ELSE 0

\* The line operator<< builds, field by field; it starts with "\r" and
\* holds no line terminator.
Frame(t, pct) ==
    [kind |-> "frame", title |-> t.title_, bar |-> Bar(t), percent |-> pct,
     step |-> t.step_, size |-> t.size_,
     estimated |-> to_time_string(estimated_time(t)),
     passed |-> to_time_string(passed_time(t))]

\* What std::endl writes.
Endl == [kind |-> "endl"]

\* operator<< that forgets to record the time of the frame.
OpShlNoStamp(t, clk, pct) ==
    IF Throttled(t, clk)
    THEN [tq |-> t, text |-> <<>>]
    ELSE [tq |-> [t EXCEPT !.first_print_ = FALSE], text |-> <<Frame(t, pct)>>]

\* operator<< that records the time of the request before its early return.
OpShlStampAlways(t, clk, pct) ==
    IF Throttled(t, clk)
    THEN [tq |-> [t EXCEPT !.last_print_time_ = clk], text |-> <<>>]
    ELSE [tq |-> [t EXCEPT !.last_print_time_ = clk, !.first_print_ = FALSE],
          text |-> <<Frame(t, pct)>>]

\* operator<<(std::ostream&, Tqdm&) called at clock value clk: the Tqdm
\* afterwards and what went to the stream.
OpShl(t, clk, pct) ==
    IF Throttled(t, clk)
    THEN [tq |-> t, text |-> <<>>]
    ELSE [tq |-> [t EXCEPT !.last_print_time_ = clk, !.first_print_ = FALSE],
          text |-> <<Frame(t, pct)>>]

\* ------------------------------------------------- the tqdm() factory
begin_it == 0
end_it == Len(container)

\* The lambda without the `return` of its end branch.
HookLambdaNoReturn(t, it, clk, pct) ==
    LET r == OpShl(t, clk, pct)
        q == OpShl(r.tq, clk, pct)
    IN  IF it = end_it
        THEN [tq |-> step(q.tq, clk), text |-> r.text \o <<Endl>> \o q.text]
        ELSE [tq |-> step(r.tq, clk), text |-> r.text]

\* The lambda calling step() before it renders.
HookLambdaStepFirst(t, it, clk, pct) ==
    LET r == OpShl(IF it = end_it THEN t ELSE step(t, clk), clk, pct)
    IN  IF it = end_it
        THEN [tq |-> r.tq, text |-> r.text \o <<Endl>>]
        ELSE [tq |-> r.tq, text |-> r.text]

\* The lambda tqdm() hands to makeIteratorRangeHook, called with cursor it.
HookLambda(t, it, clk, pct) ==
    LET r == OpShl(t, clk, pct)
    IN  IF it = end_it
        THEN [tq |-> r.tq, text |-> r.text \o <<Endl>>]
        ELSE [tq |-> step(r.tq, clk), text |-> r.text]

\* ------------------------------------------- IteratorHook and Iterator
\* The value-initialised IteratorType of a default-constructed Iterator.
Singular == 0 - 1

\* An Iterator object not constructed yet.
NoIterator == [live |-> FALSE, it_ |-> Singular, hook_ |-> "nullptr"]
\* Iterator(const IteratorType& it, std::function<...>* hook)
IteratorOf(it, hook) == [live |-> TRUE, it_ |-> it, hook_ |-> hook]
\* Iterator()
IteratorDefault == IteratorOf(Singular, "nullptr")
\* Iterator(const Iterator& it)
IteratorCopy(i) == IteratorOf(i.it_, "nullptr")
\* Iterator& operator=(const Iterator& it)
IteratorAssign(i) == IteratorOf(i.it_, i.hook_)

OpEq(i, j) == i.it_ = j.it_
OpNe(i, j) == i.it_ # j.it_
\* operator* reading the range's first element instead of its own.
OpStarOfBegin(i) == container[begin_it + 1]

\* reference operator*() const
OpStar(i) == container[i.it_ + 1]

\* The hook resetting the Tqdm when begin() invokes it.
InvokeHookResetAtBegin(it, by) ==
    LET t0 == IF by = "begin" THEN reset(tq, now) ELSE tq
    IN  \E pct \in Percents(t0) :
            LET r == HookLambda(t0, it, now, pct)
            IN  /\ tq' = r.tq
                /\ os' = os \o r.text
                /\ calls' = Append(calls,
                       [by |-> by, it |-> it, at |-> now, loop |-> loop,
                        wrote |-> r.text # <<>> /\ r.text[1].kind = "frame",
                        endl |-> r.text # <<>> /\ r.text[Len(r.text)].kind = "endl",
                        upto |-> Len(os) + Len(r.text)])

\* The hook of the range is invoked with cursor it on behalf of `by`.
InvokeHook(it, by) ==
    \E pct \in Percents(tq) :
        LET r == HookLambda(tq, it, now, pct)
        IN  /\ tq' = r.tq
            /\ os' = os \o r.text
            /\ calls' = Append(calls,
                   [by |-> by, it |-> it, at |-> now, loop |-> loop,
                    wrote |-> r.text # <<>> /\ r.text[1].kind = "frame",
                    endl |-> r.text # <<>> /\ r.text[Len(r.text)].kind = "endl",
                    upto |-> Len(os) + Len(r.text)])

NoHook == UNCHANGED <<tq, os, calls>>

\* No operation on an iterator object yet.
NoOp == [op |-> "none", slot |-> "b", from |-> NoIterator, ncalls |-> 0]

Begins == Cardinality({k \in 1..Len(calls) : calls[k].by = "begin"})

\* ---------------------------------------------------- class ProgressBar
\* A glyph table of n levels: level 0 is the empty mark, level n - 1 the
\* full mark.  A glyph is written as its level.
Patterns(n) == [k \in 1..n |-> k - 1]
\* What reading patterns_ outside its bounds may yield besides a glyph.
Garbage == 0 - 1

\* percentage_ is a float; the model holds it as the fraction num / den.
\* The fractions from -1 to 2 with a denominator up to MaxDen.
Fractions ==
    UNION {{[num |-> a, den |-> b] : a \in (0 - b)..(2 * b)} : b \in 1..MaxDen}

\* `assigned` is history: setPercentage() has given percentage_ a value.
ProgressBar(width, patterns, percentage) ==
    [width_ |-> width, patterns_ |-> patterns, percentage_ |-> percentage,
     assigned |-> FALSE]

pattern_num(b) == Len(b.patterns_) - 1

\* int num = (percentage_ - 1e-5) * width_ * pattern_num, the conversion
\* truncating towards zero.  With the denominators, widths and levels of
\* this model the float and double roundings never reach an integer
\* boundary, so the exact value is what the code computes.  The product
\* is percentage_ * P - P / EpsDen for P = width_ * pattern_num; it is
\* taken as the difference I of the two whole parts plus the fraction
\* n / (den * EpsDen) of absolute value below 1, so that no intermediate
\* value leaves the 32-bit integers.
EpsDen == 100000
num(b) ==
    LET P == b.width_ * pattern_num(b)
        a == b.percentage_.num
        d == b.percentage_.den
        I == ((a * P) \div d) - (P \div EpsDen)
        n == ((a * P) % d) * EpsDen - (P % EpsDen) * d
    IN  IF n = 0 THEN I
        ELSE IF n > 0 THEN (IF I >= 0 THEN I ELSE I + 1)
        ELSE (IF I > 0 THEN I - 1 ELSE I)

\* The number of patterns_.back() cells the first loop appends.
FullCells(b) ==
    LET n == CDiv(num(b), pattern_num(b)) IN IF n > 0 THEN n ELSE 0
\* The index of patterns_[num % pattern_num + 1], counted from 0.
PartialIndex(b) == CMod(num(b), pattern_num(b)) + 1
\* The number of patterns_.front() cells the last loop appends.
EmptyCells(b) ==
    LET n == b.width_ - CDiv(num(b), pattern_num(b)) - 1 IN IF n > 0 THEN n ELSE 0

\* What patterns_[PartialIndex] may be: inside the table the glyph there,
\* outside it the read is undefined.
PartialGlyphs(b) ==
    IF PartialIndex(b) \in 0..pattern_num(b)
    THEN {b.patterns_[PartialIndex(b) + 1]}
    ELSE {b.patterns_[k] : k \in 1..Len(b.patterns_)} \cup {Garbage}

\* std::string ProgressBar::toString() const, with partial cell glyph g.
toString(b, g) ==
    IF b.width_ <= 0
    THEN <<>>
    ELSE [k \in 1..FullCells(b) |-> b.patterns_[Len(b.patterns_)]]
         \o <<g>>
         \o [k \in 1..EmptyCells(b) |-> b.patterns_[1]]

NotShown == [valid |-> FALSE, bar |-> <<>>]

\* ------------------------------------- the range-for loop of test.cpp
\* IteratorHook::begin(), as `auto __begin = range.begin()`.
Begin ==
    /\ pc = "init"
    /\ InvokeHook(begin_it, "begin")
    /\ iters' = [iters EXCEPT !["b"] = IteratorOf(begin_it, "&hook_")]
    /\ pc' = "end"
    /\ UNCHANGED <<ts, last, pb, shown, container, now, loop, yielded>>

\* IteratorHook::end(), as `auto __end = range.end()`.
End ==
    /\ pc = "end"
    /\ iters' = [iters EXCEPT !["e"] = IteratorOf(end_it, "&hook_")]
    /\ pc' = "test"
    /\ NoHook
    /\ UNCHANGED <<ts, last, pb, shown, container, now, loop, yielded>>

\* `__begin != __end`
Test ==
    /\ pc = "test"
    /\ pc' = IF OpNe(iters["b"], iters["e"]) THEN "deref" ELSE "done"
    /\ NoHook
    /\ UNCHANGED <<ts, last, pb, shown, container, now, iters, loop, yielded>>

\* `auto _ = *__begin`
Deref ==
    /\ pc = "deref"
    /\ yielded' = Append(yielded, OpStar(iters["b"]))
    /\ pc' = "body"
    /\ NoHook
    /\ UNCHANGED <<ts, last, pb, shown, container, now, iters, loop>>

\* operator++ that hands the hook the cursor it had before advancing.
OpIncPostfix(s) ==
    IF iters[s].hook_ # "nullptr"
    THEN /\ iters' = [iters EXCEPT ![s].it_ = @ + 1]
         /\ InvokeHook(iters[s].it_, s)
    ELSE /\ iters' = iters
         /\ NoHook

\* Iterator::operator++() on the object in slot s.
OpInc(s) ==
    IF iters[s].hook_ # "nullptr"
    THEN /\ iters' = [iters EXCEPT ![s].it_ = @ + 1]
         /\ InvokeHook(iters[s].it_ + 1, s)
    ELSE /\ iters' = iters
         /\ NoHook

\* `++__begin`, after the loop body.
Inc ==
    /\ pc = "body"
    /\ OpInc("b")
    /\ pc' = "test"
    /\ UNCHANGED <<ts, last, pb, shown, container, now, loop, yielded>>

\* The loop body leaves the loop early (break, return, exception).
Break ==
    /\ pc = "body"
    /\ pc' = "abandoned"
    /\ NoHook
    /\ UNCHANGED <<ts, last, pb, shown, container, now, iters, loop, yielded>>

\* The caller iterates the same decorated range once more.
Again ==
    /\ pc \in {"done", "abandoned"}
    /\ loop = 1
    /\ loop' = 2
    /\ pc' = "init"
    /\ yielded' = <<>>
    /\ iters' = [iters EXCEPT !["b"] = NoIterator, !["e"] = NoIterator]
    /\ NoHook
    /\ UNCHANGED <<ts, last, pb, shown, container, now>>

\* Time passes: one tick, or a whole second.
Tick ==
    /\ (now % TicksPerSec) < MaxTicks
    /\ now' = now + 1
    /\ NoHook
    /\ UNCHANGED <<ts, last, pb, shown, container, iters, pc, loop, yielded>>

\* After `auto range = tqdm(v, "test", std::cerr, mininterval, width)`,
\* one second after the epoch.
Init ==
    /\ container \in Containers
    /\ now = TicksPerSec
    /\ \E m \in MinIntervals, w \in Widths \cup {DefaultWidth} :
           tq = Tqdm(Len(container), "test", m, w, now)
    /\ iters = [s \in Slots |-> NoIterator]
    /\ pc = "init"
    /\ loop = 1
    /\ os = <<>>
    /\ calls = <<>>
    /\ yielded = <<>>
    /\ last = NoOp
    /\ pb = ProgressBar(10, Patterns(2), [num |-> 0, den |-> 1])
    /\ shown = NotShown
    /\ ts = NoTimeString

Next ==
    \/ Begin
    \/ End
    \/ Test
    \/ Deref
    \/ Inc
    \/ Break
    \/ Again
    \/ Tick

Spec == Init /\ [][Next]_vars


\* ------------------------------- a caller that uses class Tqdm directly
\* tqdm.step()
TqStep ==
    /\ tq' = step(tq, now)
    /\ UNCHANGED <<ts, last, pb, shown, container, now, iters, pc, loop, os, calls, yielded>>

\* os << tqdm
TqPrint ==
    /\ Len(os) < MaxPrints
    /\ \E pct \in Percents(tq) :
           LET r == OpShl(tq, now, pct)
           IN  tq' = r.tq /\ os' = os \o r.text
    /\ UNCHANGED <<ts, last, pb, shown, container, now, iters, pc, loop, calls, yielded>>

\* The hook lambda run on a cursor of the range.
TqHook(it) ==
    /\ Len(os) < MaxPrints
    /\ \E pct \in Percents(tq) :
           LET r == HookLambda(tq, it, now, pct)
           IN  tq' = r.tq /\ os' = os \o r.text
    /\ UNCHANGED <<ts, last, pb, shown, container, now, iters, pc, loop, calls, yielded>>

TickSec ==
    /\ now < 2 * TicksPerSec
    /\ now' = now + TicksPerSec
    /\ NoHook
    /\ UNCHANGED <<ts, last, pb, shown, container, iters, pc, loop, yielded>>

NextTqdm ==
    \/ TqStep
    \/ TqPrint
    \/ \E it \in 0..end_it : TqHook(it)
    \/ Tick
    \/ TickSec

\* After `Tqdm tqdm(size, "test", mininterval, width)` for a vector of
\* size elements, all false as std::vector<bool> v(size) makes them.
InitTqdm ==
    /\ Init
    /\ \A k \in 1..Len(container) : container[k] = FALSE

SpecTqdm == InitTqdm /\ [][NextTqdm]_vars

\* ------------------- a caller that handles the iterator objects freely
\* The most hook invocations such a caller makes.
MaxCalls == MaxN + 2

Did(op, s) == last' = [op |-> op, slot |-> s, from |-> iters[s], ncalls |-> Len(calls)]

\* b = range.begin()
ObjBegin ==
    /\ Len(calls) < MaxCalls
    /\ InvokeHook(begin_it, "begin")
    /\ iters' = [iters EXCEPT !["b"] = IteratorOf(begin_it, "&hook_")]
    /\ Did("begin", "b")
    /\ UNCHANGED <<ts, pb, shown, container, now, pc, loop, yielded>>

\* end() invoking the hook with the end cursor, as begin() does with its.
ObjEndHooked ==
    /\ Len(calls) < MaxCalls
    /\ InvokeHook(end_it, "end")
    /\ iters' = [iters EXCEPT !["e"] = IteratorOf(end_it, "&hook_")]
    /\ Did("end", "e")
    /\ UNCHANGED <<ts, pb, shown, container, now, pc, loop, yielded>>

\* e = range.end()
ObjEnd ==
    /\ iters' = [iters EXCEPT !["e"] = IteratorOf(end_it, "&hook_")]
    /\ NoHook
    /\ Did("end", "e")
    /\ UNCHANGED <<ts, pb, shown, container, now, pc, loop, yielded>>

\* Iterator x(t): the copy constructor.
ObjCopy(t) ==
    /\ t \in {"b", "e"}
    /\ iters[t].live
    /\ iters' = [iters EXCEPT !["x"] = IteratorCopy(iters[t])]
    /\ NoHook
    /\ Did("copy", "x")
    /\ UNCHANGED <<ts, pb, shown, container, now, pc, loop, yielded>>

\* Iterator x: the default constructor.
ObjDefault ==
    /\ iters' = [iters EXCEPT !["x"] = IteratorDefault]
    /\ NoHook
    /\ Did("default", "x")
    /\ UNCHANGED <<ts, pb, shown, container, now, pc, loop, yielded>>

\* x = t: the copy assignment, x constructed before.
ObjAssign(t) ==
    /\ t \in {"b", "e"}
    /\ iters[t].live
    /\ iters["x"].live
    /\ iters' = [iters EXCEPT !["x"] = IteratorAssign(iters[t])]
    /\ NoHook
    /\ Did("assign", "x")
    /\ UNCHANGED <<ts, pb, shown, container, now, pc, loop, yielded>>

\* ++s.  Incrementing an iterator that holds end() or no position at all
\* is the caller's error and left out.
ObjInc(s) ==
    /\ iters[s].live
    /\ iters[s].it_ # Singular
    /\ iters[s].it_ < end_it
    /\ iters[s].hook_ # "nullptr" => Len(calls) < MaxCalls
    /\ OpInc(s)
    /\ Did("inc", s)
    /\ UNCHANGED <<ts, pb, shown, container, now, pc, loop, yielded>>

NextObj ==
    \/ ObjBegin
    \/ ObjEnd
    \/ \E t \in Slots : ObjCopy(t)
    \/ ObjDefault
    \/ \E t \in Slots : ObjAssign(t)
    \/ \E s \in Slots : ObjInc(s)

\* After `auto range = tqdm(v, "test", std::cerr, mininterval)`, the bar of
\* the default width.
InitObj ==
    /\ InitTqdm
    /\ tq.width_ = DefaultWidth

SpecObj == InitObj /\ [][NextObj]_vars

\* ---------------------------------- a caller of ProgressBar
SetWidth(w) ==
    /\ pb' = [pb EXCEPT !.width_ = w]
    /\ shown' = NotShown
    /\ UNCHANGED <<ts, container, tq, now, iters, pc, loop, os, calls, yielded, last>>

SetPatterns(p) ==
    /\ pb' = [pb EXCEPT !.patterns_ = p]
    /\ shown' = NotShown
    /\ UNCHANGED <<ts, container, tq, now, iters, pc, loop, os, calls, yielded, last>>

SetPercentage(f) ==
    /\ pb' = [pb EXCEPT !.percentage_ = f, !.assigned = TRUE]
    /\ shown' = NotShown
    /\ UNCHANGED <<ts, container, tq, now, iters, pc, loop, os, calls, yielded, last>>

CallToString ==
    /\ \E g \in PartialGlyphs(pb) : shown' = [valid |-> TRUE, bar |-> toString(pb, g)]
    /\ UNCHANGED <<ts, pb, container, tq, now, iters, pc, loop, os, calls, yielded, last>>

\* After `ProgressBar bar(width, patterns)`: the constructor leaves
\* percentage_ uninitialised, so it holds any value.
InitBar ==
    /\ container = <<>>
    /\ now = TicksPerSec
    /\ tq = Tqdm(0, "", 100, 10, now)
    /\ iters = [s \in Slots |-> NoIterator]
    /\ pc = "init"
    /\ loop = 1
    /\ os = <<>>
    /\ calls = <<>>
    /\ yielded = <<>>
    /\ last = NoOp
    /\ \E w \in (0 - 1)..MaxBarWidth, n \in 2..MaxLevels, f \in Fractions :
           pb = ProgressBar(w, Patterns(n), f)
    /\ shown = NotShown
    /\ ts = NoTimeString

NextBar ==
    \/ \E w \in (0 - 1)..MaxBarWidth : SetWidth(w)
    \/ \E n \in 2..MaxLevels : SetPatterns(Patterns(n))
    \/ \E f \in Fractions : SetPercentage(f)
    \/ CallToString

SpecBar == InitBar /\ [][NextBar]_vars


\* ------------------------- the durations operator<< hands to_time_string
\* Milliseconds per hour, minute and second, as to_time_string divides.
MsPerHour == 3600000
MsPerMin == 60000
MsPerSec == 1000
\* The longest duration shown, in hours.
MaxHours == 100
\* Durations in milliseconds: every hour count up to MaxHours with the
\* first, second and last minute and second, on and just before a second.
Durations ==
    {h * MsPerHour + m * MsPerMin + s * MsPerSec + r :
        h \in 0..MaxHours, m \in {0, 1, 59}, s \in {0, 1, 59}, r \in {0, 999}}

\* to_time_string(estimated_time) or to_time_string(passed_time) for a frame
\* whose duration is d.
CallToTimeString(d) ==
    /\ ts' = TimeStringOf(d)
    /\ UNCHANGED <<pb, shown, container, tq, now, iters, pc, loop, os, calls, yielded, last>>

InitTime ==
    /\ container = <<>>
    /\ now = TicksPerSec
    /\ tq = Tqdm(0, "", 100, DefaultWidth, now)
    /\ iters = [s \in Slots |-> NoIterator]
    /\ pc = "init"
    /\ loop = 1
    /\ os = <<>>
    /\ calls = <<>>
    /\ yielded = <<>>
    /\ last = NoOp
    /\ pb = ProgressBar(10, Patterns(2), [num |-> 0, den |-> 1])
    /\ shown = NotShown
    /\ ts = NoTimeString

NextTime == \E d \in Durations : CallToTimeString(d)

SpecTime == InitTime /\ [][NextTime]_vars

\* ------------------- a caller that steps and prints a Tqdm as time passes
\* The largest size of such a Tqdm.
MaxSize == MaxN + 1

\* After `Tqdm tqdm(v.size(), "test", mininterval)` for a vector of up to
\* MaxSize elements.
InitEstimate ==
    /\ \E n \in 0..MaxSize : container = [k \in 1..n |-> FALSE]
    /\ now = TicksPerSec
    /\ \E m \in MinIntervals :
           tq = Tqdm(Len(container), "test", m, DefaultWidth, now)
    /\ iters = [s \in Slots |-> NoIterator]
    /\ pc = "init"
    /\ loop = 1
    /\ os = <<>>
    /\ calls = <<>>
    /\ yielded = <<>>
    /\ last = NoOp
    /\ pb = ProgressBar(10, Patterns(2), [num |-> 0, den |-> 1])
    /\ shown = NotShown
    /\ ts = NoTimeString

NextEstimate ==
    \/ TqStep
    \/ TqPrint
    \/ Tick
    \/ TickSec

SpecEstimate == InitEstimate /\ [][NextEstimate]_vars

\* ------------------------------- a caller of a very wide ProgressBar
\* A bar so wide that 1e-5 * width_ * pattern_num reaches 1 with two
\* pattern steps and 2 with three.
WideWidth == EpsDen - 1
\* The fractions from 0 to 1 with a denominator up to MaxDen.
UnitFractions == {f \in Fractions : 0 <= f.num /\ f.num <= f.den}
BarWidths == (1..MaxBarWidth) \cup {WideWidth}

\* After `ProgressBar bar(WideWidth, patterns)`; of the values the
\* uninitialised percentage_ may hold, those from 0 to 1.
InitWideBar ==
    /\ container = <<>>
    /\ now = TicksPerSec
    /\ tq = Tqdm(0, "", 100, DefaultWidth, now)
    /\ iters = [s \in Slots |-> NoIterator]
    /\ pc = "init"
    /\ loop = 1
    /\ os = <<>>
    /\ calls = <<>>
    /\ yielded = <<>>
    /\ last = NoOp
    /\ \E n \in 2..MaxLevels, f \in UnitFractions :
           pb = ProgressBar(WideWidth, Patterns(n), f)
    /\ shown = NotShown
    /\ ts = NoTimeString

NextWideBar ==
    \/ \E w \in BarWidths : SetWidth(w)
    \/ \E n \in 2..MaxLevels : SetPatterns(Patterns(n))
    \/ \E f \in UnitFractions : SetPercentage(f)
    \/ CallToString

SpecWideBar == InitWideBar /\ [][NextWideBar]_vars

\* ----------------------------------------------------------- properties
N == Len(container)
\* The hook invocations of main()'s l-th loop over the range, in order.
Trav(l) == SelectSeq(calls, LAMBDA c : c.loop = l)
\* The `++__begin` the running loop has completed.
Advances == IF pc \in {"body", "abandoned"} THEN Len(yielded) - 1 ELSE Len(yielded)
\* The frame hook invocation c wrote (c.wrote holds).
FrameOf(c) == IF c.endl THEN os[c.upto - 1] ELSE os[c.upto]
Terminators == {k \in 1..Len(os) : os[k].kind = "endl"}
ZeroTime == <<"0", "0", ":", "0", "0", ":", "0", "0">>

\* C1: over a full traversal of a range of any length N >= 0 (begin(), then
\* ++ on the returned iterator until it equals end()) the hook is invoked
\* exactly N+1 times: first by begin() with the begin cursor, then once
\* after each of the N advances; the last invocation's cursor equals the
\* end cursor and no earlier one does.  At every point of a traversal the
\* invocations number one more than the advances made.
C1_HookCount ==
    LET T == Trav(loop)
    IN  /\ pc = "init" => T = <<>>
        /\ pc # "init" =>
              /\ Len(T) = 1 + Advances
              /\ T[1].by = "begin" /\ T[1].it = begin_it
              /\ \A k \in 2..Len(T) : T[k].by = "b" /\ T[k].it = k - 1
        /\ pc = "done" =>
              /\ Advances = N
              /\ Len(T) = N + 1
              /\ T[Len(T)].it = end_it
              /\ \A k \in 1..(Len(T) - 1) : T[k].it # end_it

C1_Witness == pc = "done" /\ N = 2 /\ Len(Trav(loop)) = 3

\* C2: whatever way an iterator object was obtained (begin(), end(), copy
\* construction, default construction, assignment), ++ on it advances the
\* underlying cursor by exactly one position and then invokes the hook
\* exactly once, with the advanced cursor.
C2_EveryIncAdvancesAndHooks ==
    last.op = "inc" =>
        /\ iters[last.slot].it_ = last.from.it_ + 1
        /\ Len(calls) = last.ncalls + 1
        /\ calls[Len(calls)].it = iters[last.slot].it_

\* C3: the loop over the decorated range receives exactly the elements of
\* the container, as many and in the same order, whatever the progress
\* state, the throttle and the clock do; two decorated iterators compare
\* equal exactly when their underlying cursors do, unequal exactly when
\* those differ.
C3_Transparent ==
    /\ Len(yielded) <= N
    /\ \A k \in 1..Len(yielded) : yielded[k] = container[k]
    /\ pc = "done" => yielded = container
    /\ pc \in {"deref", "body"} => iters["b"].it_ # iters["e"].it_
    /\ \A s \in Slots, t \in Slots :
          iters[s].live /\ iters[t].live =>
              /\ OpEq(iters[s], iters[t]) <=> iters[s].it_ = iters[t].it_
              /\ OpNe(iters[s], iters[t]) <=> iters[s].it_ # iters[t].it_

C3_Witness ==
    pc = "done" /\ N = 2 /\ container[1] # container[2] /\ yielded = container

\* C4: in the traversal of a freshly decorated range of N >= 1 elements,
\* for every mininterval and every timing, the first hook invocation writes
\* a frame showing 0% and 0/N, and the invocation at the end cursor writes
\* a frame showing 100% and N/N followed by a line terminator: the throttle
\* suppresses neither.
C4_FirstAndFinalFrame ==
    LET T == Trav(1)
    IN  N >= 1 =>
          /\ T # <<>> =>
                /\ T[1].wrote /\ ~T[1].endl
                /\ FrameOf(T[1]).percent = 0
                /\ FrameOf(T[1]).step = 0
                /\ FrameOf(T[1]).size = N
          /\ \A k \in 1..Len(T) :
                T[k].it = end_it =>
                    /\ T[k].wrote /\ T[k].endl
                    /\ os[T[k].upto] = Endl
                    /\ FrameOf(T[k]).percent = 100
                    /\ FrameOf(T[k]).step = N
                    /\ FrameOf(T[k]).size = N
          /\ loop = 1 /\ pc = "done" => T[Len(T)].it = end_it

\* A finished traversal in which the throttle did suppress a frame.
C4_Witness ==
    /\ loop = 1 /\ pc = "done" /\ N = 2
    /\ \E k \in 1..Len(Trav(1)) : ~Trav(1)[k].wrote

\* C5: a line terminator is written only by a hook invocation whose cursor
\* is the end cursor.  A traversal abandoned before the cursor reaches end
\* has written no terminator and the last thing on the stream is a frame;
\* a full traversal writes exactly one terminator, right after its final
\* frame, and nothing after it.
C5_TerminatorOnlyAtEnd ==
    LET T == Trav(loop)
    IN  /\ \A k \in 1..Len(calls) : calls[k].endl <=> calls[k].it = end_it
        /\ Cardinality(Terminators)
              = Cardinality({k \in 1..Len(calls) : calls[k].endl})
        /\ \A k \in Terminators : k > 1 /\ os[k - 1].kind = "frame"
        /\ pc = "abandoned" =>
              /\ \A k \in 1..Len(T) : ~T[k].endl
              /\ os # <<>> /\ os[Len(os)].kind = "frame"
              /\ loop = 1 => Terminators = {}
        /\ pc = "done" =>
              /\ Cardinality({k \in 1..Len(T) : T[k].endl}) = 1
              /\ T[Len(T)].endl
              /\ os[Len(os)] = Endl
              /\ Len(os) >= 2 /\ os[Len(os) - 1].kind = "frame"

\* A second loop abandoned after the first one ran to the end.
C5_Witness ==
    loop = 2 /\ pc = "abandoned" /\ Cardinality(Terminators) = 1 /\ N = 2

\* C6: in the traversal of a freshly decorated range, two frames written
\* one after the other by hook invocations whose cursor is not the end
\* cursor lie at least mininterval milliseconds apart.
C6_ThrottleGap ==
    LET T == Trav(1)
        NonTerminal(k) == T[k].wrote /\ T[k].it # end_it
    IN  \A j \in 1..Len(T), k \in 1..Len(T) :
            ( /\ j < k
              /\ NonTerminal(j) /\ NonTerminal(k)
              /\ \A i \in (j + 1)..(k - 1) : ~NonTerminal(i) )
            => T[k].at - T[j].at >= tq.mininterval_ * TicksPerMs

C6_Witness ==
    LET T == Trav(1)
    IN  /\ tq.mininterval_ = 1 /\ N = 2 /\ Len(T) >= 2
        /\ T[1].wrote /\ T[2].wrote /\ T[2].it # end_it

\* C7: with total = width = N and no throttling, the k-th frame of a full
\* traversal (k = 0..N) shows a bar of exactly k full cells followed by
\* N - k empty cells, the percentage floor(100 * k / N) and the counter
\* k/N, and the last frame is followed by a line terminator.
C7_BarOfKCells ==
    LET T == Trav(1)
    IN  (N >= 1 /\ tq.width_ = N /\ tq.mininterval_ = 0) =>
            /\ \A k \in 1..Len(T) :
                  /\ T[k].wrote
                  /\ FrameOf(T[k]).bar
                        = [i \in 1..N |-> IF i <= k - 1 THEN "=" ELSE " "]
                  /\ FrameOf(T[k]).percent = (100 * (k - 1)) \div N
                  /\ FrameOf(T[k]).step = k - 1
                  /\ FrameOf(T[k]).size = N
            /\ loop = 1 /\ pc = "done" => Len(T) = N + 1 /\ T[Len(T)].endl

\* C8: 0 <= current <= total in every state reached by step() calls, render
\* requests and hook invocations, and current never decreases.
C8_CurrentBounded ==
    /\ [](0 <= tq.step_ /\ tq.step_ <= tq.size_)
    /\ [][tq'.step_ >= tq.step_]_vars

C8_Witness == tq.size_ = 2 /\ tq.step_ = tq.size_ /\ Len(os) = MaxPrints

\* C9: for an empty range begin() makes the one hook invocation, at the end
\* cursor, and it writes one well-defined final frame (percentage 0,
\* counter 0/0, both time fields 00:00:00) followed by a line terminator.
C9_EmptyRangeFrame ==
    (N = 0 /\ loop = 1 /\ pc # "init") =>
        /\ Len(calls) = 1
        /\ calls[1].it = end_it
        /\ Len(os) = 2
        /\ os[2] = Endl
        /\ os[1].kind = "frame"
        /\ os[1].percent = 0
        /\ os[1].step = 0 /\ os[1].size = 0
        /\ os[1].estimated = ZeroTime /\ os[1].passed = ZeroTime

\* C10: for width > 0, any glyph table of at least two levels and any
\* fraction, below 0 and above 1 included, toString() returns exactly
\* `width` cells; for width <= 0 it returns the empty string.
C10_BarWidth ==
    (shown.valid /\ pb.assigned) =>
        IF pb.width_ > 0 THEN Len(shown.bar) = pb.width_ ELSE shown.bar = <<>>

\* C11: for every width > 0 and every glyph table of at least two levels,
\* a fraction <= 0 is rendered as `width` empty glyphs, with no full or
\* partial glyph, and a fraction >= 1 as `width` full glyphs; with the two
\* glyphs " " and "#" the fraction 1/2 fills the first half of a bar of
\* even width with "#" and leaves the second half blank.
C11_BoundaryBars ==
    LET f == pb.percentage_
        w == pb.width_
        empty == pb.patterns_[1]
        full == pb.patterns_[Len(pb.patterns_)]
    IN  (shown.valid /\ pb.assigned /\ w > 0) =>
            /\ f.num <= 0 => shown.bar = [k \in 1..w |-> empty]
            /\ f.num >= f.den => shown.bar = [k \in 1..w |-> full]
            /\ (2 * f.num = f.den /\ Len(pb.patterns_) = 2 /\ w % 2 = 0) =>
                  shown.bar = [k \in 1..w |-> IF 2 * k <= w THEN full ELSE empty]

\* The character of a decimal digit.
DigitChar(n) == <<"0", "1", "2", "3", "4", "5", "6", "7", "8", "9">>[n + 1]

\* C12: for every duration d >= 0 in milliseconds the formatted field is
\* HH:MM:SS with HH = d div 3600000, MM = (d mod 3600000) div 60000 and
\* SS = (d mod 60000) div 1000, truncating; MM and SS lie in 0..59 and each
\* of the three fields is printed as exactly two zero-padded digits.
C12_TimeFormat ==
    LET d == ts.ms
        HH == d \div 3600000
        MM == (d % 3600000) \div 60000
        SS == (d % 60000) \div 1000
        IsTwoDigits(f, n) ==
            /\ Len(f) = 2
            /\ \E a \in 0..9, b \in 0..9 :
                  f = <<DigitChar(a), DigitChar(b)>> /\ n = 10 * a + b
    IN  (ts.valid /\ d >= 0) =>
            /\ MM \in 0..59 /\ SS \in 0..59
            /\ Len(ts.text) = 8
            /\ IsTwoDigits(SubSeq(ts.text, 1, 2), HH)
            /\ ts.text[3] = ":"
            /\ IsTwoDigits(SubSeq(ts.text, 4, 5), MM)
            /\ ts.text[6] = ":"
            /\ IsTwoDigits(SubSeq(ts.text, 7, 8), SS)

\* The render rule as stated: first render, or complete, or at least
\* mininterval milliseconds since the last frame.
Due(t, clk) ==
    \/ t.first_print_
    \/ t.step_ >= t.size_
    \/ clk - t.last_print_time_ >= t.mininterval_ * TicksPerMs

\* C13: a render request made at time now writes a frame if and only if
\* first_print_ is true, or step_ >= size_, or now - last_print_time_ >=
\* mininterval; a step that writes a frame was due, sets last_print_time_
\* to now and clears first_print_.  So a request made sooner than
\* mininterval after a frame, neither first nor complete, writes nothing,
\* and a request on a complete state always writes.
C13_ThrottleRule ==
    /\ [](\A pct \in Percents(tq) :
             LET r == OpShl(tq, now, pct)
             IN  /\ r.text # <<>> <=> Due(tq, now)
                 /\ r.text # <<>> =>
                       /\ Len(r.text) = 1 /\ r.text[1].kind = "frame"
                       /\ r.tq.last_print_time_ = now
                       /\ ~r.tq.first_print_)
    /\ [][(Len(os') > Len(os) /\ os'[Len(os) + 1].kind = "frame") =>
             /\ Due(tq, now)
             /\ tq'.last_print_time_ = now
             /\ ~tq'.first_print_]_vars

\* A frame is out and a request made now, within mininterval of it and
\* neither first nor complete, is suppressed.
C13_Witness ==
    /\ Len(os) >= 1 /\ os[Len(os)].kind = "frame"
    /\ tq.mininterval_ = 1
    /\ ~tq.first_print_ /\ tq.step_ < tq.size_
    /\ now = tq.last_print_time_ + 1
    /\ \A pct \in Percents(tq) : OpShl(tq, now, pct).text = <<>>

\* The frames on the stream, in the order written.
Frames == SelectSeq(os, LAMBDA x : x.kind = "frame")

\* C14: in the traversal of a freshly decorated range of N elements the
\* k-th hook invocation (k = 0..N-1, cursor not at end) renders against
\* step_ = k and only then calls step(), leaving step_ = k + 1; the
\* invocation at the end cursor renders with step_ = N and does not call
\* step().  So every frame written shows the count before that call's
\* increment, and successive frames show strictly increasing counts.
C14_RenderBeforeStep ==
    /\ [](loop = 1 =>
            LET T == Trav(1)
            IN  /\ tq.step_ = Cardinality({k \in 1..Len(T) : T[k].it # end_it})
                /\ \A k \in 1..Len(T) :
                      /\ T[k].it = k - 1
                      /\ T[k].wrote => FrameOf(T[k]).step = k - 1
                /\ (T # <<>> /\ T[Len(T)].it = end_it) => tq.step_ = N
                /\ \A j \in 1..Len(Frames), k \in 1..Len(Frames) :
                      j < k => Frames[j].step < Frames[k].step)
    /\ [][(loop = 1 /\ Len(calls') > Len(calls)) =>
             LET c == calls'[Len(calls')]
             IN  /\ c.wrote => os'[Len(os) + 1].step = tq.step_
                 /\ tq'.step_ = IF c.it = end_it THEN tq.step_
                                ELSE tq.step_ + 1]_vars

\* A finished first traversal of two elements, every frame written.
C14_Witness ==
    /\ loop = 1 /\ pc = "done" /\ N = 2
    /\ \A k \in 1..3 : Trav(1)[k].wrote
    /\ tq.step_ = 2

\* The fields of a Tqdm other than step_ and current_time_.
Others(t) ==
    <<t.size_, t.title_, t.mininterval_, t.width_, t.first_print_,
      t.start_time_, t.last_print_time_>>

\* C15: step() when step_ < size_ increments step_ by exactly 1, records
\* the time of the call in current_time_, returns the new step_ and changes
\* nothing else; step() when step_ = size_ returns size_ and leaves step_,
\* current_time_, start_time_, last_print_time_ and first_print_ unchanged.
C15_StepEffect ==
    /\ [](LET s == step(tq, now)
          IN  /\ Others(s) = Others(tq)
              /\ stepResult(tq, now) = s.step_
              /\ tq.step_ < tq.size_ =>
                    /\ s.step_ = tq.step_ + 1
                    /\ s.current_time_ = now
              /\ tq.step_ = tq.size_ =>
                    /\ s = tq
                    /\ stepResult(tq, now) = tq.size_)
    /\ [][tq'.step_ # tq.step_ =>
             /\ tq.step_ < tq.size_
             /\ tq'.step_ = tq.step_ + 1
             /\ tq'.current_time_ = now
             /\ os' = os => Others(tq') = Others(tq)]_vars
    /\ [][tq'.current_time_ # tq.current_time_ => tq'.step_ = tq.step_ + 1]_vars

\* A complete state whose last sample is older than the clock: a step()
\* now would show if it touched the sample.
C15_Witness ==
    /\ tq.size_ = 2 /\ tq.step_ = tq.size_
    /\ tq.current_time_ # Epoch /\ tq.current_time_ < now
    /\ tq.last_print_time_ # Epoch

\* current_time_ - start_time_ in whole milliseconds.
Elapsed == (tq.current_time_ - tq.start_time_) \div TicksPerMs

\* C16: at render time, in integer milliseconds with truncating division
\* and elapsed = current_time_ - start_time_: if step_ = 0 the estimated
\* total, the remaining and the displayed elapsed durations are all 0; if
\* step_ >= 1, estimated = (elapsed * size_) div step_ and remaining =
\* (elapsed * (size_ - step_)) div step_.  So estimated >= elapsed at every
\* frame, and at step_ = size_ estimated = elapsed and remaining = 0.  A
\* frame shows the estimated and the elapsed duration so computed.
C16_Estimates ==
    /\ [](/\ tq.step_ = 0 =>
                /\ estimated_time(tq) = 0
                /\ remaining_time(tq) = 0
                /\ passed_time(tq) = 0
          /\ tq.step_ >= 1 =>
                /\ Elapsed >= 0
                /\ passed_time(tq) = Elapsed
                /\ estimated_time(tq) = (Elapsed * tq.size_) \div tq.step_
                /\ remaining_time(tq)
                      = (Elapsed * (tq.size_ - tq.step_)) \div tq.step_
          /\ estimated_time(tq) >= passed_time(tq)
          /\ remaining_time(tq) >= 0
          /\ tq.step_ = tq.size_ =>
                /\ estimated_time(tq) = passed_time(tq)
                /\ remaining_time(tq) = 0)
    /\ [][(Len(os') > Len(os) /\ os'[Len(os) + 1].kind = "frame") =>
             /\ os'[Len(os) + 1].estimated
                   = to_time_string(IF tq.step_ = 0 THEN 0
                                    ELSE (Elapsed * tq.size_) \div tq.step_)
             /\ os'[Len(os) + 1].passed
                   = to_time_string(IF tq.step_ = 0 THEN 0 ELSE Elapsed)]_vars

\* A frame at step 2 of 3 after an odd number of milliseconds of more than
\* a second: the estimate's division truncates.
C16_Witness ==
    /\ tq.size_ = 3 /\ tq.step_ = 2
    /\ Elapsed > 1000 /\ Elapsed % 2 = 1
    /\ os # <<>> /\ os[Len(os)].step = 2
    /\ estimated_time(tq) * tq.step_ < Elapsed * tq.size_

\* C17: for every width > 0, every glyph table of L + 1 >= 2 levels and
\* every fraction from 0 to 1, num lies in 0..(width * L - 1), the full
\* cells number at most width - 1, and the partial cell's index
\* num % L + 1 lies in 1..L, so that patterns_ is never read out of bounds,
\* whenever toString() is called on the bar.
C17_GlyphTableSafe ==
    LET f == pb.percentage_
        w == pb.width_
        L == pattern_num(pb)
    IN  (pb.assigned /\ w > 0 /\ 0 <= f.num /\ f.num <= f.den) =>
            /\ 0 <= num(pb) /\ num(pb) <= w * L - 1
            /\ FullCells(pb) <= w - 1
            /\ PartialIndex(pb) \in 1..L
            /\ PartialGlyphs(pb) = {pb.patterns_[PartialIndex(pb) + 1]}
            /\ shown.valid => \A k \in 1..Len(shown.bar) : shown.bar[k] # Garbage

\* C18: end() invokes no hook, writes nothing to the stream and leaves the
\* Tqdm unchanged, however often and at whatever point of a traversal it
\* is called; only begin() and operator++ invoke the hook, and nothing but
\* a hook invocation writes to the stream or changes the Tqdm.
C18_EndIsSilent ==
    /\ [](last.op = "end" =>
             /\ Len(calls) = last.ncalls
             /\ iters["e"] = IteratorOf(end_it, "&hook_"))
    /\ [][(last' # last /\ last'.op = "end") =>
             tq' = tq /\ os' = os /\ calls' = calls]_vars
    /\ [][iters'["e"] # iters["e"] =>
             tq' = tq /\ os' = os /\ calls' = calls]_vars
    /\ [][calls' # calls =>
             /\ last'.op \in {"begin", "inc"}
             /\ Len(calls') = Len(calls) + 1]_vars
    /\ [][(tq' # tq \/ os' # os) => calls' # calls]_vars

\* end() called again in the middle of a traversal, after two hook
\* invocations and one frame.
C18_Witness ==
    /\ last.op = "end" /\ last.from.live
    /\ Len(calls) = 2 /\ os # <<>>
    /\ iters["b"].live /\ iters["b"].it_ = 1 /\ N = 2

\* The fields of a Tqdm a render request never writes.
Progress(t) ==
    <<t.step_, t.size_, t.start_time_, t.current_time_, t.title_,
      t.mininterval_, t.width_>>

\* C19: a render request never changes step_, size_, start_time_ or
\* current_time_; a request the throttle suppresses writes nothing and
\* leaves the whole Tqdm unchanged, last_print_time_ and first_print_
\* included, so that the next frame is due mininterval after the last
\* frame written, however many requests were suppressed in between.
C19_RenderFrame ==
    /\ [](\A pct \in Percents(tq) :
             LET r == OpShl(tq, now, pct)
             IN  /\ Progress(r.tq) = Progress(tq)
                 /\ Throttled(tq, now) => r.text = <<>> /\ r.tq = tq
                 /\ r.text = <<>> => r.tq = tq
                 /\ (os # <<>> /\ now - tq.last_print_time_
                                      >= tq.mininterval_ * TicksPerMs)
                       => r.text # <<>>)
    /\ [][os' # os => Progress(tq') = Progress(tq)]_vars
    /\ [][os' = os =>
             /\ tq'.last_print_time_ = tq.last_print_time_
             /\ tq'.first_print_ = tq.first_print_]_vars
    /\ [][os' # os => tq'.last_print_time_ = now]_vars

\* Two frames are out and a request made now, half a millisecond after
\* the second, is suppressed.
C19_Witness ==
    /\ Len(os) = 2
    /\ tq.mininterval_ = 1 /\ tq.size_ = 3 /\ tq.step_ = 1
    /\ now > tq.last_print_time_
    /\ Throttled(tq, now)

\* The first loop over the range ran to the end.
FirstLoopFull == Trav(1) # <<>> /\ Trav(1)[Len(Trav(1))].it = end_it

\* C20: the Tqdm of a decorated range is never reset between traversals.
\* After a full traversal has brought step_ to size_, every hook
\* invocation of a further traversal of the same object leaves step_ =
\* size_ and writes a frame showing size_/size_, whatever mininterval and
\* the time elapsed are.
C20_NoResetBetweenTraversals ==
    /\ tq.start_time_ = TicksPerSec
    /\ FirstLoopFull => tq.step_ = tq.size_
    /\ (loop = 2 /\ FirstLoopFull) =>
          \A k \in 1..Len(Trav(2)) :
              /\ Trav(2)[k].wrote
              /\ FrameOf(Trav(2)[k]).step = N
              /\ FrameOf(Trav(2)[k]).size = N

\* A second full traversal of two elements with mininterval 1 ms, all of
\* its three frames written at the same clock value.
C20_Witness ==
    /\ loop = 2 /\ pc = "done" /\ N = 2 /\ FirstLoopFull
    /\ tq.mininterval_ = 1
    /\ Len(Trav(2)) = 3
    /\ Trav(2)[1].at = Trav(2)[3].at
    /\ \A k \in 1..3 : Trav(2)[k].wrote

====
